---------------------------- MODULE Spec2Model ----------------------------
(***************************************************************************)
(* A model of app.py, the dependency reasoning chatbot: the four static    *)
(* tables, the version comparator (parse_version, get_bump_type), the      *)
(* lookups, check_compatibility, explain_version_choice,                   *)
(* format_explanation and the submit / clear handlers of main().           *)
(*                                                                         *)
(* Text whose characters the code inspects (version strings, service       *)
(* names, the context) is a sequence of one-character strings; Str turns   *)
(* such a sequence into a TLA+ string where the code only formats it.      *)
(* Package names are only compared and tested for emptiness, so they are   *)
(* TLA+ strings.  The pictographs that open some literals of the source    *)
(* are left out of the modelled literals.                                  *)
(***************************************************************************)
EXTENDS Integers, Sequences, FiniteSets, TLC

VARIABLES
    messages,      \* st.session_state.messages, the conversation log
    explain_button,\* TRUE iff this script run was started by the explain button
    error,         \* TRUE iff this script run rendered st.error(...)
    explanation,   \* main()'s local `explanation` of this run: <<e>>, or <<>> if unbound
    ecosystem,     \* the ecosystem selectbox
    package,       \* the package name text input
    old_version,   \* the old version text input
    new_version,   \* the new version text input
    context,       \* the context text input
    args,          \* the arguments of a direct call of one of the functions
    ret            \* <<v>> once that call has returned v, <<>> before

vars == <<messages, explain_button, error, explanation, ecosystem, package, old_version,
          new_version, context, args, ret>>

NONE == "<none>"

-----------------------------------------------------------------------------
(* Bounds of the model *)

\* longest version string drawn for parse_version
MaxLen == 7
\* most dot-separated tokens of a version string drawn for get_bump_type
MaxTokens == 3
\* most phrases a drawn context is built of
MaxCtxWords == 2
\* longest conversation log explored
MaxMessages == 4

-----------------------------------------------------------------------------
(* Text helpers *)

RECURSIVE Str(_)
Str(cs) == IF cs = <<>> THEN "" ELSE Head(cs) \o Str(Tail(cs))

\* ', '.join(items) of the source, on TLA+ strings
RECURSIVE JoinComma(_)
JoinComma(items) ==
    IF items = <<>> THEN ""
    ELSE IF Len(items) = 1 THEN items[1]
    ELSE items[1] \o ", " \o JoinComma(Tail(items))

\* "\n".join(lines)
RECURSIVE JoinLines(_)
JoinLines(lines) ==
    IF lines = <<>> THEN ""
    ELSE IF Len(lines) = 1 THEN lines[1]
    ELSE lines[1] \o "\n" \o JoinLines(Tail(lines))

\* str.lower(), on the letters that occur in the model's texts
LowerMap ==
    ("A" :> "a") @@ ("C" :> "c") @@ ("E" :> "e") @@ ("G" :> "g") @@
    ("I" :> "i") @@ ("K" :> "k") @@ ("O" :> "o") @@ ("P" :> "p") @@
    ("R" :> "r") @@ ("S" :> "s") @@ ("T" :> "t") @@ ("U" :> "u") @@
    ("V" :> "v") @@ ("W" :> "w") @@ ("Y" :> "y") @@ ("H" :> "h")

lower(cs) ==
    [i \in 1..Len(cs) |-> IF cs[i] \in DOMAIN LowerMap THEN LowerMap[cs[i]] ELSE cs[i]]

\* `a in b` on texts: a occurs in b as a contiguous run
IsSubstring(a, b) ==
    \E i \in 0..(Len(b) - Len(a)) : SubSeq(b, i + 1, i + Len(a)) = a

\* str.split('.'): the maximal runs between dots; always at least one token
RECURSIVE SplitFrom(_, _, _)
SplitFrom(cs, i, cur) ==
    IF i > Len(cs) THEN <<cur>>
    ELSE IF cs[i] = "." THEN <<cur>> \o SplitFrom(cs, i + 1, <<>>)
    ELSE SplitFrom(cs, i + 1, Append(cur, cs[i]))

split(cs) == SplitFrom(cs, 1, <<>>)

Digits == {"0", "1", "2", "3", "4", "5", "6", "7", "8", "9"}

DigitVal ==
    ("0" :> 0) @@ ("1" :> 1) @@ ("2" :> 2) @@ ("3" :> 3) @@ ("4" :> 4) @@
    ("5" :> 5) @@ ("6" :> 6) @@ ("7" :> 7) @@ ("8" :> 8) @@ ("9" :> 9)

RECURSIVE DigitsValue(_, _)
DigitsValue(cs, acc) ==
    IF cs = <<>> THEN acc ELSE DigitsValue(Tail(cs), acc * 10 + DigitVal[Head(cs)])

\* int(tok): an optional sign, then one or more decimal digits; anything
\* else raises ValueError.  (Surrounding blanks and inner underscores, which
\* int() also accepts, are outside the alphabet of the model.)
IntBody(tok) ==
    IF tok # <<>> /\ Head(tok) \in {"-", "+"} THEN Tail(tok) ELSE tok

IntOk(tok) ==
    /\ IntBody(tok) # <<>>
    /\ \A i \in 1..Len(IntBody(tok)) : IntBody(tok)[i] \in Digits

IntValue(tok) ==
    IF tok # <<>> /\ Head(tok) = "-"
    THEN 0 - DigitsValue(IntBody(tok), 0)
    ELSE DigitsValue(IntBody(tok), 0)

\* dict.get(key, default)
Get(d, k, default) == IF k \in DOMAIN d THEN d[k] ELSE default

\* a version literal "a.b.c" of the tables
V(a, b, c) == <<a, ".", b, ".", c>>

EmptyDict == [k \in {} |-> NONE]

\* texts used as service names and in contexts
CHECKOUT == <<"C","h","e","c","k","o","u","t"," ","S","e","r","v","i","c","e">>
USER_SERVICE == <<"U","s","e","r"," ","S","e","r","v","i","c","e">>
API_GATEWAY == <<"A","P","I"," ","G","a","t","e","w","a","y">>

-----------------------------------------------------------------------------
(* The four tables *)

RELEASE_METADATA ==
    ("auth-lib" :>
        ( (V("2","1","0") :> [notes |-> "Security patches for token validation. Performance improvements in JWT parsing.",
                              bump_type |-> "minor", release_date |-> "2024-01-15"])
       @@ (V("2","2","0") :> [notes |-> "Added OAuth2 refresh token support. Fixed memory leak in session management.",
                              bump_type |-> "minor", release_date |-> "2024-02-20"])
       @@ (V("3","0","0") :> [notes |-> "BREAKING: Removed deprecated API endpoints. New authentication flow required. Migration guide available.",
                              bump_type |-> "major", release_date |-> "2024-03-10"]) ))
 @@ ("payments-core" :>
        ( (V("3","1","0") :> [notes |-> "Bug fixes for currency conversion edge cases. Improved error handling.",
                              bump_type |-> "minor", release_date |-> "2024-01-22"])
       @@ (V("3","2","0") :> [notes |-> "Added support for new payment methods. Enhanced transaction logging.",
                              bump_type |-> "minor", release_date |-> "2024-02-05"])
       @@ (V("4","0","0") :> [notes |-> "BREAKING: New payment gateway integration. API signature changes. Requires database migration.",
                              bump_type |-> "major", release_date |-> "2024-03-18"]) ))
 @@ ("logging-lib" :>
        ( (V("1","5","0") :> [notes |-> "Fixed log rotation issue. Added structured logging support.",
                              bump_type |-> "minor", release_date |-> "2024-01-10"])
       @@ (V("1","5","1") :> [notes |-> "Critical bug fix for log file corruption under high load.",
                              bump_type |-> "patch", release_date |-> "2024-01-25"])
       @@ (V("2","0","0") :> [notes |-> "BREAKING: Changed default log format. New configuration schema required.",
                              bump_type |-> "major", release_date |-> "2024-02-28"]) ))

KNOWN_ISSUES ==
    ("auth-lib" :>
        ( (V("2","0","0") :> <<"CVE-2024-001: Token validation bypass vulnerability">>)
       @@ (V("2","0","5") :> <<"CVE-2024-001: Token validation bypass vulnerability">>)
       @@ (V("2","1","0") :> <<>>) ))
 @@ ("payments-core" :>
        ( (V("3","0","0") :> <<"CVE-2024-002: Potential race condition in transaction processing">>)
       @@ (V("3","1","0") :> <<>>) ))
 @@ ("logging-lib" :>
        ( (V("1","4","0") :> <<"CVE-2024-003: Log injection vulnerability">>)
       @@ (V("1","5","0") :> <<>>) ))

INTERNAL_INCIDENTS ==
    ("payments-core" :>
        (V("3","2","0") :> <<"Incident #142: Memory leak detected in production. Root cause: improper resource cleanup in transaction handler.">>))
 @@ ("auth-lib" :>
        (V("2","0","0") :> <<"Incident #89: Authentication failures during peak load. Resolved in 2.1.0.">>))
 @@ ("logging-lib" :>
        (V("1","4","5") :> <<"Incident #156: Log file corruption causing service restarts. Fixed in 1.5.1.">>))

\* A dict iterates in insertion order: the matrix is the sequence of its
\* items, each a service name with the packages it declares.
COMPATIBILITY_MATRIX == <<
    [service_name |-> CHECKOUT,
     packages |-> ("payments-core" :> V("3","2","0")) @@ ("auth-lib" :> V("2","2","0"))
                    @@ ("logging-lib" :> V("1","5","1"))],
    [service_name |-> USER_SERVICE,
     packages |-> ("auth-lib" :> V("3","0","0")) @@ ("logging-lib" :> V("2","0","0"))],
    [service_name |-> API_GATEWAY,
     packages |-> ("auth-lib" :> V("2","2","0")) @@ ("logging-lib" :> V("1","5","1"))]
>>

-----------------------------------------------------------------------------
(* Version comparator *)

\* A parse_version that returns from inside the try what it had parsed when
\* an int() call raised, instead of falling back to the zero triple.
parse_version_partial(version) ==
    LET parts == split(version)
        n == Len(parts)
        ok1 == n > 0 => IntOk(parts[1])
        ok2 == ok1 /\ (n > 1 => IntOk(parts[2]))
        ok3 == ok2 /\ (n > 2 => IntOk(parts[3]))
    IN  << IF ok1 /\ n > 0 THEN IntValue(parts[1]) ELSE 0,
           IF ok2 /\ n > 1 THEN IntValue(parts[2]) ELSE 0,
           IF ok3 /\ n > 2 THEN IntValue(parts[3]) ELSE 0 >>

\* parse_version: the three int() calls run in order inside one try; an
\* IndexError cannot occur (each index is guarded by len(parts)), so the
\* except clause is reached exactly when one of the int() calls made raises.
parse_version(version) ==
    LET parts == split(version)
        n == Len(parts)
    IN  IF /\ (n > 0 => IntOk(parts[1]))
           /\ (n > 1 => IntOk(parts[2]))
           /\ (n > 2 => IntOk(parts[3]))
        THEN << IF n > 0 THEN IntValue(parts[1]) ELSE 0,
                IF n > 1 THEN IntValue(parts[2]) ELSE 0,
                IF n > 2 THEN IntValue(parts[3]) ELSE 0 >>
        ELSE <<0, 0, 0>>

\* A get_bump_type that compares a component only when the ones before it
\* are equal (the lexicographic order of the triples).
get_bump_type_lex(old, new) ==
    LET o == parse_version(old)
        n == parse_version(new)
    IN  IF n[1] > o[1] THEN "major"
        ELSE IF n[1] = o[1] /\ n[2] > o[2] THEN "minor"
        ELSE IF n[1] = o[1] /\ n[2] = o[2] /\ n[3] > o[3] THEN "patch"
        ELSE "unknown"

get_bump_type(old, new) ==
    LET o == parse_version(old)
        n == parse_version(new)
    IN  IF n[1] > o[1] THEN "major"
        ELSE IF n[2] > o[2] THEN "minor"
        ELSE IF n[3] > o[3] THEN "patch"
        ELSE "unknown"

-----------------------------------------------------------------------------
(* Lookups *)

check_security_issues(pkg, old, new) ==
    << Get(Get(KNOWN_ISSUES, pkg, EmptyDict), old, <<>>),
       Get(Get(KNOWN_ISSUES, pkg, EmptyDict), new, <<>>) >>

check_internal_incidents(pkg, old, new) ==
    << Get(Get(INTERNAL_INCIDENTS, pkg, EmptyDict), old, <<>>),
       Get(Get(INTERNAL_INCIDENTS, pkg, EmptyDict), new, <<>>) >>

-----------------------------------------------------------------------------
(* Compatibility checker *)

CompatibleEntry(service_name, service_version) ==
    Str(service_name) \o " uses " \o Str(service_version)

IncompatibleEntry(service_name, service_version) ==
    Str(service_name) \o " uses " \o Str(service_version) \o " (major version mismatch)"

\* A context loop without the break: every service the context names is
\* looked at, not only the first.
RECURSIVE ContextLoopNoBreak(_, _, _)
ContextLoopNoBreak(i, pkg, context_lower) ==
    IF i > Len(COMPATIBILITY_MATRIX) THEN <<>>
    ELSE LET item == COMPATIBILITY_MATRIX[i] IN
         (IF IsSubstring(lower(item.service_name), context_lower)
             /\ pkg \in DOMAIN item.packages
          THEN << CompatibleEntry(item.service_name, item.packages[pkg]) >>
          ELSE <<>>)
         \o ContextLoopNoBreak(i + 1, pkg, context_lower)

\* A context loop without the `if package in packages` test, reading the
\* version with packages.get(package).
RECURSIVE ContextLoopNoDeclTest(_, _, _)
ContextLoopNoDeclTest(i, pkg, context_lower) ==
    IF i > Len(COMPATIBILITY_MATRIX) THEN <<>>
    ELSE LET item == COMPATIBILITY_MATRIX[i] IN
         IF IsSubstring(lower(item.service_name), context_lower)
         THEN << CompatibleEntry(item.service_name,
                                 Get(item.packages, pkg, <<"N","o","n","e">>)) >>
         ELSE ContextLoopNoDeclTest(i + 1, pkg, context_lower)

\* The loop of the context branch from item i on: the first service whose
\* lowered name occurs in the lowered context ends the loop (break), whether
\* or not it declares the package.
RECURSIVE ContextLoop(_, _, _)
ContextLoop(i, pkg, context_lower) ==
    IF i > Len(COMPATIBILITY_MATRIX) THEN <<>>
    ELSE LET item == COMPATIBILITY_MATRIX[i] IN
         IF IsSubstring(lower(item.service_name), context_lower)
         THEN IF pkg \in DOMAIN item.packages
              THEN << CompatibleEntry(item.service_name, item.packages[pkg]) >>
              ELSE <<>>
         ELSE ContextLoop(i + 1, pkg, context_lower)

\* `if context:` is false for None and for the empty string
ContextBranch(pkg, ctx) ==
    IF ctx # <<>> THEN ContextLoop(1, pkg, lower(ctx)) ELSE <<>>

\* A full scan that reports every differing major as a mismatch (!= for >).
RECURSIVE FullScanAnyMismatch(_, _, _)
FullScanAnyMismatch(i, pkg, new) ==
    IF i > Len(COMPATIBILITY_MATRIX) THEN << <<>>, <<>> >>
    ELSE LET item == COMPATIBILITY_MATRIX[i]
             rest == FullScanAnyMismatch(i + 1, pkg, new)
         IN  IF pkg \in DOMAIN item.packages
             THEN LET service_version == item.packages[pkg]
                      new_ver == parse_version(new)
                      service_ver == parse_version(service_version)
                  IN  IF new_ver[1] = service_ver[1]
                      THEN << <<CompatibleEntry(item.service_name, service_version)>> \o rest[1],
                              rest[2] >>
                      ELSE << rest[1],
                              <<IncompatibleEntry(item.service_name, service_version)>> \o rest[2] >>
             ELSE rest

\* The "check all services" loop from item i on, as the pair of lists
\* <<compatible, incompatible>> it appends.
RECURSIVE FullScan(_, _, _)
FullScan(i, pkg, new) ==
    IF i > Len(COMPATIBILITY_MATRIX) THEN << <<>>, <<>> >>
    ELSE LET item == COMPATIBILITY_MATRIX[i]
             rest == FullScan(i + 1, pkg, new)
         IN  IF pkg \in DOMAIN item.packages
             THEN LET service_version == item.packages[pkg]
                      new_ver == parse_version(new)
                      service_ver == parse_version(service_version)
                  IN  IF new_ver[1] = service_ver[1]
                      THEN << <<CompatibleEntry(item.service_name, service_version)>> \o rest[1],
                              rest[2] >>
                      ELSE IF new_ver[1] > service_ver[1]
                      THEN << rest[1],
                              <<IncompatibleEntry(item.service_name, service_version)>> \o rest[2] >>
                      ELSE rest
             ELSE rest

check_compatibility(pkg, new, ctx) ==
    LET scan == FullScan(1, pkg, new)
    IN  [compatible |-> ContextBranch(pkg, ctx) \o scan[1],
         incompatible |-> scan[2]]

-----------------------------------------------------------------------------
(* Explanation composer *)

NoReleaseNotes == "No release notes available."

\* A BuildSources that cites the matrix only for a non-empty compatible list.
BuildSourcesCompatibleOnly(pkg, old, new, release_notes, old_security_issues, old_incidents, compat_info) ==
       (IF release_notes # NoReleaseNotes
        THEN << "Release notes for " \o pkg \o " " \o Str(new) >> ELSE <<>>)
    \o (IF old_security_issues # <<>>
        THEN << "Security advisories for " \o pkg \o " " \o Str(old) >> ELSE <<>>)
    \o (IF old_incidents # <<>>
        THEN << "Internal incident reports for " \o pkg \o " " \o Str(old) >> ELSE <<>>)
    \o (IF compat_info.compatible # <<>>
        THEN << "Internal compatibility matrix" >> ELSE <<>>)

BuildSources(pkg, old, new, release_notes, old_security_issues, old_incidents, compat_info) ==
       (IF release_notes # NoReleaseNotes
        THEN << "Release notes for " \o pkg \o " " \o Str(new) >> ELSE <<>>)
    \o (IF old_security_issues # <<>>
        THEN << "Security advisories for " \o pkg \o " " \o Str(old) >> ELSE <<>>)
    \o (IF old_incidents # <<>>
        THEN << "Internal incident reports for " \o pkg \o " " \o Str(old) >> ELSE <<>>)
    \o (IF compat_info.compatible # <<>> \/ compat_info.incompatible # <<>>
        THEN << "Internal compatibility matrix" >> ELSE <<>>)

BuildSummary(bump_type, old, new) ==
    IF bump_type = "major"
    THEN "Major version upgrade from " \o Str(old) \o " to " \o Str(new)
            \o ". This may include breaking changes."
    ELSE IF bump_type = "minor"
    THEN "Minor version upgrade from " \o Str(old) \o " to " \o Str(new)
            \o ". New features and improvements expected."
    ELSE "Patch upgrade from " \o Str(old) \o " to " \o Str(new)
            \o ". Bug fixes and security patches."

RiskBaseline(bump_type) ==
    IF bump_type = "major"
    THEN "This is a major version upgrade, which typically includes breaking changes. Review the release notes carefully and plan for migration."
    ELSE IF bump_type = "minor"
    THEN "This is a minor version upgrade, which should be backward compatible but may introduce new features."
    ELSE "This is a patch upgrade, which should be low risk and focused on bug fixes."

BuildRisk(bump_type, old, new, old_incidents, new_incidents) ==
       << RiskBaseline(bump_type) >>
    \o (IF old_incidents # <<>>
        THEN << "The old version (" \o Str(old)
                  \o ") has known internal incidents that may be resolved in the new version." >>
        ELSE <<>>)
    \o (IF new_incidents # <<>>
        THEN << "WARNING: The new version (" \o Str(new)
                  \o ") has known internal incidents. Consider investigating before upgrading." >>
        ELSE <<>>)

SecListsOld(old, old_security_issues) ==
    "The old version (" \o Str(old) \o ") has known security vulnerabilities: "
        \o JoinComma(old_security_issues)

SecAddresses(new) ==
    "The new version (" \o Str(new) \o ") appears to address these security issues."

SecNoKnown(old) ==
    "No known security issues found for version " \o Str(old) \o "."

SecWarnsNew(new, new_security_issues) ==
    "WARNING: The new version (" \o Str(new) \o ") has known security issues: "
        \o JoinComma(new_security_issues)

\* A BuildSecurity that confirms the fix without looking at the new version.
BuildSecurityAlwaysConfirms(old, new, old_security_issues, new_security_issues) ==
       (IF old_security_issues # <<>>
        THEN << SecListsOld(old, old_security_issues), SecAddresses(new) >>
        ELSE << SecNoKnown(old) >>)
    \o (IF new_security_issues # <<>>
        THEN << SecWarnsNew(new, new_security_issues) >> ELSE <<>>)

BuildSecurity(old, new, old_security_issues, new_security_issues) ==
       (IF old_security_issues # <<>>
        THEN << SecListsOld(old, old_security_issues) >>
             \o (IF new_security_issues = <<>> THEN << SecAddresses(new) >> ELSE <<>>)
        ELSE << SecNoKnown(old) >>)
    \o (IF new_security_issues # <<>>
        THEN << SecWarnsNew(new, new_security_issues) >> ELSE <<>>)

NoCompatData(pkg) ==
    "No compatibility data found for other services using " \o pkg \o "."

BuildCompatibility(pkg, compat_info) ==
       (IF compat_info.compatible # <<>>
        THEN << "Compatible versions found: " \o JoinComma(compat_info.compatible) >>
        ELSE <<>>)
    \o (IF compat_info.incompatible # <<>>
        THEN << "Potential compatibility concerns: " \o JoinComma(compat_info.incompatible) >>
        ELSE <<>>)
    \o (IF compat_info.compatible = <<>> /\ compat_info.incompatible = <<>>
        THEN << NoCompatData(pkg) >> ELSE <<>>)

explain_version_choice(pkg, old, new, eco, ctx) ==
    LET bump_type == get_bump_type(old, new)
        meta == Get(Get(RELEASE_METADATA, pkg, EmptyDict), new, EmptyDict)
        release_notes == Get(meta, "notes", NoReleaseNotes)
        metadata_bump == Get(meta, "bump_type", bump_type)
        sec == check_security_issues(pkg, old, new)
        inc == check_internal_incidents(pkg, old, new)
        compat_info == check_compatibility(pkg, new, ctx)
    IN  [summary |-> BuildSummary(bump_type, old, new),
         risk_reasoning |-> BuildRisk(bump_type, old, new, inc[1], inc[2]),
         security_reasoning |-> BuildSecurity(old, new, sec[1], sec[2]),
         compatibility_reasoning |-> BuildCompatibility(pkg, compat_info),
         release_notes |-> release_notes,
         bump_type |-> bump_type,
         sources |-> BuildSources(pkg, old, new, release_notes, sec[1], inc[1], compat_info)]

-----------------------------------------------------------------------------
(* Presentation *)

Bullets(items) == [i \in 1..Len(items) |-> "- " \o items[i]]

format_explanation(e) ==
    JoinLines(
           << "**Summary:** " \o e.summary, "",
              "**Release Notes:** " \o e.release_notes, "" >>
        \o (IF e.risk_reasoning # <<>>
            THEN <<"**Risk Assessment:**">> \o Bullets(e.risk_reasoning) \o <<"">>
            ELSE <<>>)
        \o (IF e.security_reasoning # <<>>
            THEN <<"**Security Considerations:**">> \o Bullets(e.security_reasoning) \o <<"">>
            ELSE <<>>)
        \o (IF e.compatibility_reasoning # <<>>
            THEN <<"**Compatibility:**">> \o Bullets(e.compatibility_reasoning) \o <<"">>
            ELSE <<>>)
        \o (IF e.sources # <<>>
            THEN <<"**Sources:**">> \o Bullets(e.sources)
            ELSE <<>>))

-----------------------------------------------------------------------------
(* main(): the widgets and the conversation log *)

Ecosystems == {"pip", "npm", "maven", "gradle", "cargo", "composer"}

\* What the user may type into the form (the empty text is the widgets' value="")
FormPackages == {"", "auth-lib", "unknown-pkg"}
FormOldVersions == {<<>>, V("2","1","0")}
FormNewVersions == {<<>>, V("2","2","0"), V("3","0","0")}
FormContexts == {<<>>, CHECKOUT}
FormEcosystems == {e \in Ecosystems : e \in {"pip", "cargo"}}

\* str(e) of an exception escaping the composer
ErrorTexts == {"out of memory"}

UIInit ==
    /\ messages = <<>>
    /\ explain_button = FALSE
    /\ error = FALSE
    /\ explanation = <<>>
    /\ ecosystem = "pip"
    /\ package = ""
    /\ old_version = <<>>
    /\ new_version = <<>>
    /\ context = <<>>

UIVars == <<messages, explain_button, error, explanation, ecosystem, package, old_version,
            new_version, context>>

Init ==
    /\ UIInit
    /\ args = NONE
    /\ ret = <<>>

\* The user changes the form: the script reruns with explain_button False and
\* no click on the clear button, so the log is only displayed.
Edit ==
    \E e \in FormEcosystems, p \in FormPackages, o \in FormOldVersions,
       n \in FormNewVersions, c \in FormContexts :
        /\ <<e, p, o, n, c>> # <<ecosystem, package, old_version, new_version, context>>
        /\ ecosystem' = e
        /\ package' = p
        /\ old_version' = o
        /\ new_version' = n
        /\ context' = c
        /\ explain_button' = FALSE
        /\ error' = FALSE
        /\ explanation' = <<>>
        /\ UNCHANGED <<messages, args, ret>>

user_query ==
    "Explain upgrading " \o package \o " from " \o Str(old_version) \o " to "
        \o Str(new_version)
        \o (IF context # <<>> THEN " (Context: " \o Str(context) \o ")" ELSE "")

UserEntry == [role |-> "user", content |-> user_query]

AssistantEntry(text) == [role |-> "assistant", content |-> text]

MissingField == package = "" \/ old_version = <<>> \/ new_version = <<>>

ErrorMessage(text) == "Error generating explanation: " \o text

\* A Submit that appends the user entry before it validates the fields.
SubmitAppendsBeforeValidating ==
    /\ explain_button' = TRUE
    /\ UNCHANGED <<ecosystem, package, old_version, new_version, context, args, ret>>
    /\ Len(messages) + 2 <= MaxMessages
    /\ \/ /\ MissingField
          /\ error' = TRUE
          /\ explanation' = <<>>
          /\ messages' = Append(messages, UserEntry)
       \/ /\ ~MissingField
          /\ error' = FALSE
          /\ \/ LET e == explain_version_choice(package, old_version, new_version,
                                               ecosystem, context)
                IN  /\ explanation' = <<e>>
                    /\ messages' = messages \o
                           << UserEntry, AssistantEntry(format_explanation(e)) >>
             \/ \E text \in ErrorTexts :
                    /\ explanation' = <<>>
                    /\ messages' = messages \o
                           << UserEntry, AssistantEntry(ErrorMessage(text)) >>

\* A Submit whose except clause also catches the exception st.rerun() raises
\* after the explanation was appended.
SubmitCatchesRerun ==
    /\ explain_button' = TRUE
    /\ UNCHANGED <<ecosystem, package, old_version, new_version, context, args, ret>>
    /\ \/ /\ MissingField
          /\ error' = TRUE
          /\ explanation' = <<>>
          /\ UNCHANGED messages
       \/ /\ ~MissingField
          /\ Len(messages) + 2 <= MaxMessages
          /\ error' = FALSE
          /\ \/ LET e == explain_version_choice(package, old_version, new_version,
                                               ecosystem, context)
                IN  /\ explanation' = <<e>>
                    /\ messages' = messages \o
                           << UserEntry, AssistantEntry(format_explanation(e)),
                              AssistantEntry(ErrorMessage("rerun")) >>
             \/ \E text \in ErrorTexts :
                    /\ explanation' = <<>>
                    /\ messages' = messages \o
                           << UserEntry, AssistantEntry(ErrorMessage(text)) >>

\* A click on the explain button.  st.rerun() ends the run by raising a
\* script-control exception that is not an Exception, so the except clause
\* only sees a failure of the composer or of the formatter; such a failure
\* is the environment's choice (raised).
Submit ==
    /\ explain_button' = TRUE
    /\ UNCHANGED <<ecosystem, package, old_version, new_version, context, args, ret>>
    /\ \/ /\ MissingField
          /\ error' = TRUE
          /\ explanation' = <<>>
          /\ UNCHANGED messages
       \/ /\ ~MissingField
          /\ Len(messages) + 2 <= MaxMessages
          /\ error' = FALSE
          /\ \/ LET e == explain_version_choice(package, old_version, new_version,
                                               ecosystem, context)
                IN  /\ explanation' = <<e>>
                    /\ messages' = messages \o
                           << UserEntry, AssistantEntry(format_explanation(e)) >>
             \/ \E text \in ErrorTexts :
                    /\ explanation' = <<>>
                    /\ messages' = messages \o
                           << UserEntry, AssistantEntry(ErrorMessage(text)) >>

\* The clear button exists only while the log is non-empty.
Clear ==
    /\ messages # <<>>
    /\ messages' = <<>>
    /\ explain_button' = FALSE
    /\ error' = FALSE
    /\ explanation' = <<>>
    /\ UNCHANGED <<ecosystem, package, old_version, new_version, context, args, ret>>

Next == Edit \/ Submit \/ Clear

Spec == Init /\ [][Next]_vars

-----------------------------------------------------------------------------
(* Direct calls of the functions, on inputs drawn from bounded sets *)

\* every text of at most n characters over the alphabet cs
TextsUpTo(cs, n) == UNION { [1..k -> cs] : k \in 0..n }

\* sep.join(parts), on texts
RECURSIVE Join(_, _)
Join(parts, sep) ==
    IF parts = <<>> THEN <<>>
    ELSE IF Len(parts) = 1 THEN parts[1]
    ELSE parts[1] \o sep \o Join(Tail(parts), sep)

ParseAlphabet == {"1", "2", ".", "a", "-"}
ParseVersions == TextsUpTo(ParseAlphabet, MaxLen)

BumpTokens == {<<"0">>, <<"1">>, <<"2">>, <<"a">>}
BumpVersions ==
    { Join(ts, <<".">>) : ts \in UNION { [1..k -> BumpTokens] : k \in 1..MaxTokens } }

Packages == {"auth-lib", "payments-core", "logging-lib", "unknown-pkg", "left-pad"}

\* the versions the tables name, and some they do not
TableVersions ==
    { V("2","0","0"), V("2","0","5"), V("2","1","0"), V("2","2","0"), V("3","0","0"),
      V("3","1","0"), V("3","2","0"), V("4","0","0"), V("1","4","0"), V("1","4","5"),
      V("1","5","0"), V("1","5","1") }
OtherVersions ==
    { <<>>, <<"a","b","c">>, <<"1",".","5">>, <<"2",".","x",".","0">>,
      V("0","9","0"), V("5","0","0"), <<"3",".","0",".","0",".","1">> }
Versions == TableVersions \cup OtherVersions

ContextWords ==
    { CHECKOUT, <<"u","s","e","r"," ","s","e","r","v","i","c","e">>, <<"A","P","I"," ","G","A","T","E","W","A","Y">>, <<"p","r","o","d"," ","r","o","l","l","o","u","t">>, <<"S","e","r","v","i","c","e"," ","d","e","s","k">> }
Contexts ==
    { Join(ws, <<",", " ">>) : ws \in UNION { [1..k -> ContextWords] : k \in 0..MaxCtxWords } }

ExplainContexts == { <<>>, CHECKOUT, <<"t","h","e"," ","a","p","i"," ","g","a","t","e","w","a","y">> }

Returned == ret # <<>>
Result == ret[1]

Return(v) ==
    /\ ret = <<>>
    /\ ret' = <<v>>
    /\ UNCHANGED <<UIVars, args>>

InitParse == UIInit /\ ret = <<>> /\ args \in [version : ParseVersions]
CallParse == Return(parse_version(args.version))
SpecParse == InitParse /\ [][CallParse]_vars

InitBump ==
    UIInit /\ ret = <<>> /\ args \in [old_version : BumpVersions, new_version : BumpVersions]
CallBump == Return(get_bump_type(args.old_version, args.new_version))
SpecBump == InitBump /\ [][CallBump]_vars

InitCompat ==
    UIInit /\ ret = <<>>
           /\ args \in [package : Packages, new_version : Versions, context : Contexts]
CallCompat == Return(check_compatibility(args.package, args.new_version, args.context))
SpecCompat == InitCompat /\ [][CallCompat]_vars

InitExplain ==
    UIInit /\ ret = <<>>
           /\ args \in [package : Packages, old_version : Versions, new_version : Versions,
                        ecosystem : {"pip"}, context : ExplainContexts]
CallExplain ==
    Return(explain_version_choice(args.package, args.old_version, args.new_version,
                                  args.ecosystem, args.context))
SpecExplain == InitExplain /\ [][CallExplain]_vars

-----------------------------------------------------------------------------
(* Properties of the version comparator *)

MinOf(S) == CHOOSE i \in S : \A j \in S : i <= j
MaxOf(S) == CHOOSE i \in S : \A j \in S : i >= j

ComponentNames == <<"major", "minor", "patch">>

OldTriple == parse_version(args.old_version)
NewTriple == parse_version(args.new_version)

\* the components in which new strictly exceeds old
Exceeding == { i \in 1..3 : NewTriple[i] > OldTriple[i] }

\* C1: get_bump_type returns the name of the first of major, minor, patch in
\* which the parsed new version strictly exceeds the parsed old one, and
\* "unknown" exactly when it exceeds it in none of the three.
C1_FirstExceedingComponent ==
    Returned =>
        IF Exceeding = {} THEN Result = "unknown"
        ELSE Result = ComponentNames[MinOf(Exceeding)]

\* a call where the minor component decides although the patch one exceeds too
C1_Witness ==
    Returned /\ Exceeding = {2, 3} /\ Result = "minor"

\* new <= old in the lexicographic order of the triples
LexLeq(n, o) ==
    \/ n[1] < o[1]
    \/ n[1] = o[1] /\ n[2] < o[2]
    \/ n[1] = o[1] /\ n[2] = o[2] /\ n[3] <= o[3]

\* C2: whenever the parsed new version is lexicographically <= the parsed old
\* one (an equal pair or a downgrade), get_bump_type returns "unknown", also
\* when a later component increases after an earlier one decreased.
C2_DowngradeIsUnknown ==
    Returned /\ LexLeq(NewTriple, OldTriple) => Result = "unknown"

\* The dot-separated tokens of a text, read off the positions of its dots:
\* token k is the run of characters that have k - 1 dots before them.
NumTokens(cs) == Cardinality({ i \in 1..Len(cs) : cs[i] = "." }) + 1

TokenAt(cs, k) ==
    LET at == { i \in 1..Len(cs) :
                  /\ cs[i] # "."
                  /\ Cardinality({ j \in 1..i : cs[j] = "." }) = k - 1 }
    IN  IF at = {} THEN <<>> ELSE SubSeq(cs, MinOf(at), MaxOf(at))

\* the tokens parse_version reads: the first three, or fewer if there are fewer
TokensRead(cs) == 1..(IF NumTokens(cs) < 3 THEN NumTokens(cs) ELSE 3)

ComponentOf(cs, k) == IF k <= NumTokens(cs) THEN IntValue(TokenAt(cs, k)) ELSE 0

\* C3: parse_version builds (major, minor, patch) from the first three
\* dot-separated tokens, reads a missing trailing token as 0 and ignores the
\* tokens after the third; if one of the tokens it reads is not a number the
\* result is (0,0,0) as a whole, never a partial triple.
C3_ParseVersion ==
    Returned =>
        IF \E k \in TokensRead(args.version) : ~IntOk(TokenAt(args.version, k))
        THEN Result = <<0, 0, 0>>
        ELSE Result = << ComponentOf(args.version, 1), ComponentOf(args.version, 2),
                         ComponentOf(args.version, 3) >>

\* a call whose first token is a nonzero number and whose second is not one
C3_Witness ==
    /\ Returned
    /\ NumTokens(args.version) >= 2
    /\ IntOk(TokenAt(args.version, 1))
    /\ IntValue(TokenAt(args.version, 1)) # 0
    /\ ~IntOk(TokenAt(args.version, 2))
    /\ Result = <<0, 0, 0>>

-----------------------------------------------------------------------------
(* Properties of the compatibility checker *)

\* the elements of a finite set of numbers, in increasing order
RECURSIVE Ascending(_)
Ascending(S) == IF S = {} THEN <<>> ELSE <<MinOf(S)>> \o Ascending(S \ {MinOf(S)})

Major(version) == parse_version(version)[1]

\* the table positions of the services that declare the package
Declaring(pkg) ==
    { i \in 1..Len(COMPATIBILITY_MATRIX) : pkg \in DOMAIN COMPATIBILITY_MATRIX[i].packages }

DeclaredVersion(i, pkg) == COMPATIBILITY_MATRIX[i].packages[pkg]

SameMajor(pkg, new) ==
    { i \in Declaring(pkg) : Major(new) = Major(DeclaredVersion(i, pkg)) }

HigherMajor(pkg, new) ==
    { i \in Declaring(pkg) : Major(new) > Major(DeclaredVersion(i, pkg)) }

LowerMajor(pkg, new) ==
    { i \in Declaring(pkg) : Major(new) < Major(DeclaredVersion(i, pkg)) }

UsesLine(i, pkg) ==
    Str(COMPATIBILITY_MATRIX[i].service_name) \o " uses " \o Str(DeclaredVersion(i, pkg))

\* the lines for the services of S, in table order, each followed by suffix
LinesOf(S, pkg, suffix) ==
    LET order == Ascending(S)
    IN  [k \in 1..Len(order) |-> UsesLine(order[k], pkg) \o suffix]

\* C8: without context, each service that declares the package gives one
\* outcome decided by the majors alone: a 'compatible' entry when they are
\* equal, an 'incompatible' entry marked as a major version mismatch when the
\* candidate's is greater, no entry when it is lower; other services give
\* nothing, and the entries follow the table's order.
C8_FullScan ==
    Returned /\ args.context = <<>> =>
        /\ Result.compatible = LinesOf(SameMajor(args.package, args.new_version),
                                       args.package, "")
        /\ Result.incompatible = LinesOf(HigherMajor(args.package, args.new_version),
                                         args.package, " (major version mismatch)")

\* a call without context where one declaring service is compatible and
\* another, with a higher major than the candidate, is left out
C8_Witness ==
    /\ Returned
    /\ args.context = <<>>
    /\ LowerMajor(args.package, args.new_version) # {}
    /\ Result.compatible # <<>>
    /\ Len(Result.compatible) + Len(Result.incompatible)
           < Cardinality(Declaring(args.package))

\* the table positions of the services whose name occurs in the context,
\* letter case aside
Named(ctx) ==
    { i \in 1..Len(COMPATIBILITY_MATRIX) :
        IsSubstring(lower(COMPATIBILITY_MATRIX[i].service_name), lower(ctx)) }

\* what the context branch adds: the line of the first named service, if it
\* declares the package
ContextPart(pkg, ctx) ==
    IF Named(ctx) # {} /\ MinOf(Named(ctx)) \in Declaring(pkg)
    THEN << UsesLine(MinOf(Named(ctx)), pkg) >>
    ELSE <<>>

\* C9: with a non-empty context, only the first service in table order whose
\* name occurs in the context (case-insensitively) is considered: it is added
\* once to 'compatible' if it declares the package, whatever its major, and
\* nothing is added otherwise; the entry precedes those of the full scan.
C9_ContextBranch ==
    Returned /\ args.context # <<>> =>
        /\ Result.compatible =
               ContextPart(args.package, args.context)
               \o LinesOf(SameMajor(args.package, args.new_version), args.package, "")
        /\ Result.incompatible = LinesOf(HigherMajor(args.package, args.new_version),
                                         args.package, " (major version mismatch)")

\* a call whose context names two services, the first of which declares the
\* package with a major other than the candidate's
C9_Witness ==
    /\ Returned
    /\ Cardinality(Named(args.context)) >= 2
    /\ MinOf(Named(args.context)) \in Declaring(args.package)
    /\ MinOf(Named(args.context)) \notin SameMajor(args.package, args.new_version)
    /\ Len(Result.compatible) =
           1 + Cardinality(SameMajor(args.package, args.new_version))

-----------------------------------------------------------------------------
(* Properties of the explanation composer *)

HasReleaseNotes(pkg, version) ==
    pkg \in DOMAIN RELEASE_METADATA /\ version \in DOMAIN RELEASE_METADATA[pkg]

IssuesOf(pkg, version) ==
    IF pkg \in DOMAIN KNOWN_ISSUES /\ version \in DOMAIN KNOWN_ISSUES[pkg]
    THEN KNOWN_ISSUES[pkg][version] ELSE <<>>

IncidentsOf(pkg, version) ==
    IF pkg \in DOMAIN INTERNAL_INCIDENTS /\ version \in DOMAIN INTERNAL_INCIDENTS[pkg]
    THEN INTERNAL_INCIDENTS[pkg][version] ELSE <<>>

HasCompatData(pkg, new, ctx) ==
    \/ ContextPart(pkg, ctx) # <<>>
    \/ SameMajor(pkg, new) # {}
    \/ HigherMajor(pkg, new) # {}

Optional(cond, line) == IF cond THEN <<line>> ELSE <<>>

\* C4: sources lists, in this order and each iff its condition holds: the
\* release notes of the new version, the security advisories of the old
\* version, the incident reports of the old version, the compatibility
\* matrix; what is known of the new version alone adds nothing.
C4_Sources ==
    Returned =>
        Result.sources =
               Optional(HasReleaseNotes(args.package, args.new_version),
                        "Release notes for " \o args.package \o " " \o Str(args.new_version))
            \o Optional(IssuesOf(args.package, args.old_version) # <<>>,
                        "Security advisories for " \o args.package \o " "
                            \o Str(args.old_version))
            \o Optional(IncidentsOf(args.package, args.old_version) # <<>>,
                        "Internal incident reports for " \o args.package \o " "
                            \o Str(args.old_version))
            \o Optional(HasCompatData(args.package, args.new_version, args.context),
                        "Internal compatibility matrix")

\* a call where only the new version has known issues and incidents: neither
\* is cited, and the matrix is the only source
C4_Witness ==
    /\ Returned
    /\ IssuesOf(args.package, args.new_version) # <<>>
    /\ IncidentsOf(args.package, args.new_version) # <<>>
    /\ IssuesOf(args.package, args.old_version) = <<>>
    /\ IncidentsOf(args.package, args.old_version) = <<>>
    /\ Result.sources = << "Internal compatibility matrix" >>

IsIn(line, lines) == \E i \in 1..Len(lines) : lines[i] = line

\* C5: security_reasoning opens with the old version's issues, followed by
\* the 'appears to address' line only if the new version has none, or else
\* with the single 'no known issues' line; a warning is appended last iff the
\* new version has issues.  So it has one or two entries, and never both the
\* confirmation and the warning.
C5_SecurityReasoning ==
    Returned =>
        LET oldI == IssuesOf(args.package, args.old_version)
            newI == IssuesOf(args.package, args.new_version)
            sr == Result.security_reasoning
            confirm == SecAddresses(args.new_version)
            warn == SecWarnsNew(args.new_version, newI)
        IN  /\ Len(sr) \in {1, 2}
            /\ sr[1] = IF oldI # <<>> THEN SecListsOld(args.old_version, oldI)
                       ELSE SecNoKnown(args.old_version)
            /\ IsIn(confirm, sr) <=> (oldI # <<>> /\ newI = <<>>)
            /\ IsIn(confirm, sr) => sr[2] = confirm
            /\ IsIn(warn, sr) <=> newI # <<>>
            /\ IsIn(warn, sr) => sr[Len(sr)] = warn
            /\ ~(IsIn(confirm, sr) /\ IsIn(warn, sr))

\* a call where both the old and the new version have known issues
C5_Witness ==
    /\ Returned
    /\ IssuesOf(args.package, args.old_version) # <<>>
    /\ IssuesOf(args.package, args.new_version) # <<>>
    /\ Len(Result.security_reasoning) = 2

\* the top-level keys of the four tables
TableKeys ==
    DOMAIN RELEASE_METADATA \cup DOMAIN KNOWN_ISSUES \cup DOMAIN INTERNAL_INCIDENTS
        \cup { Str(COMPATIBILITY_MATRIX[i].service_name) : i \in 1..Len(COMPATIBILITY_MATRIX) }

\* C7: for a package that is a key of none of the tables, whatever the
\* versions and the context, the result has the default release notes, no
\* sources, the single 'no known issues' line, the baseline risk line alone
\* and the single 'No compatibility data found' line.
C7_UnknownPackage ==
    Returned /\ args.package \notin TableKeys =>
        /\ Result.release_notes = "No release notes available."
        /\ Result.sources = <<>>
        /\ Result.security_reasoning =
               << "No known security issues found for version "
                      \o Str(args.old_version) \o "." >>
        /\ Result.risk_reasoning = << RiskBaseline(Result.bump_type) >>
        /\ Result.bump_type = get_bump_type(args.old_version, args.new_version)
        /\ Result.compatibility_reasoning =
               << "No compatibility data found for other services using "
                      \o args.package \o "." >>

\* a call for an unknown package with a malformed version and a context that
\* names a service
C7_Witness ==
    /\ Returned
    /\ args.package \notin TableKeys
    /\ Named(args.context) # {}
    /\ ~IntOk(TokenAt(args.new_version, 1))
    /\ Result.sources = <<>>

-----------------------------------------------------------------------------
(* Properties of the conversation log *)

Alternates(log) ==
    /\ Len(log) % 2 = 0
    /\ \A i \in 1..Len(log) :
           log[i].role = (IF i % 2 = 1 THEN "user" ELSE "assistant")

\* C6: a submit with an empty package name, old version or new version
\* reports the validation error and leaves the log as it was; the composer is
\* not invoked (the run binds no explanation).
C6_InvalidSubmit ==
    [][ explain_button' /\ MissingField' =>
            /\ messages' = messages
            /\ error'
            /\ explanation' = <<>> ]_vars

\* an invalid submit made while the log holds an exchange
C6_Witness ==
    explain_button /\ MissingField /\ error /\ Len(messages) = 2

\* the two entries a valid submit appends
IsExchange(u, a) ==
    /\ u = UserEntry
    /\ a.role = "assistant"
    /\ \/ a.content = format_explanation(
              explain_version_choice(package, old_version, new_version, ecosystem, context))
       \/ \E text \in ErrorTexts : a.content = "Error generating explanation: " \o text

LogStep ==
    \/ /\ explain_button'
       /\ ~MissingField
       /\ Len(messages') = Len(messages) + 2
       /\ SubSeq(messages', 1, Len(messages)) = messages
       /\ IsExchange(messages'[Len(messages) + 1], messages'[Len(messages) + 2])
    \/ /\ explain_button'
       /\ MissingField
       /\ messages' = messages
    \/ /\ ~explain_button'
       /\ messages' = messages
    \/ /\ ~explain_button'
       /\ messages # <<>>
       /\ messages' = <<>>

\* C10: between interactions the log has even length and alternates user,
\* assistant from a user entry on; a step either appends one user entry and
\* one assistant entry (a valid submit: the explanation or the error message),
\* leaving the earlier entries as they were, or leaves the log unchanged, or,
\* from a non-empty log only, empties it; clearing is possible exactly when
\* the log is non-empty.
C10_LogDiscipline ==
    /\ [](Alternates(messages) /\ ((ENABLED Clear) <=> messages # <<>>))
    /\ [][LogStep]_vars

\* a log of two exchanges, the first answered by the error message and the
\* second by an explanation
C10_Witness ==
    /\ Len(messages) = 4
    /\ \E text \in ErrorTexts : messages[2].content = "Error generating explanation: " \o text
    /\ explanation # <<>>
    /\ messages[4].content = format_explanation(explanation[1])

=============================================================================
